---- MODULE Spec2Model ----
(***************************************************************************)
(* The lending state machine of project.py: LibrarySystem.add_book,        *)
(* register_member, issue_book, return_book, handle_waitlist and           *)
(* add_to_waitlist, over the Book and Member records.                      *)
(*                                                                         *)
(* Dates are day numbers (datetime.date ordinals relative to the day the   *)
(* LibrarySystem was constructed); a timedelta is a difference of days.    *)
(* return_book is modelled in steps: ReturnBook is lines 100-122, each     *)
(* iteration of the while loop of handle_waitlist is HandleWaitlistStep,   *)
(* and the loop's exit is HandleWaitlistExit.  While pc = "waitlist" no    *)
(* other operation is enabled (the program is single-threaded).            *)
(*                                                                         *)
(* call and last record what a call saw on entry (books0, members0) and    *)
(* the branch it took; the program does not read them.                     *)
(*                                                                         *)
(* Spec is the lending desk with its clock and every return condition and  *)
(* date; SpecGate adds downtime and consent withdrawal; SpecShelf is a     *)
(* stocked shelf of BorrowLimit + 1 titles; SpecPolicy runs both set-ups.  *)
(***************************************************************************)
EXTENDS Integers, Sequences, FiniteSets, TLC

VARIABLES
    books,          \* LibrarySystem.books: isbn -> Book (copies, total_copies, waitlist)
    members,        \* LibrarySystem.members: member_id -> Member
    system_status,  \* LibrarySystem.system_status
    today,          \* datetime.date.today()
    pc,             \* "idle", or "waitlist" inside return_book's handle_waitlist loop
    call,           \* the return_book call in progress (its arguments and what it saw on entry)
    last,           \* the last issue_book / return_book call and the branch it took
    written_off     \* the isbns of which a copy came back damaged or lost (lines 115-120)

vars == <<books, members, system_status, today, pc, call, last, written_off>>

----------------------------------------------------------------------------
(* Bounds of the model *)

MaxCopies == 2      \* add_book is not called once a title has this many total_copies
MaxReturns == 1     \* return_book is not called for a held book once this many were returned
MaxFines == 1000    \* return_book is not called when it would take fines above this

MemberIds == {1, 2}
Isbns == {1}
Days == {0, 15, 366}        \* the days the clock is observed at
Conditions == {"good", "damaged", "lost"}

(* Program constants *)

BorrowLimit == 5        \* len(member.borrowed_books) >= 5
LoanDays == 14          \* timedelta(days=14)
MembershipDays == 365   \* timedelta(days=365)
FinePerDay == 5         \* late_days * 5
DamagedFine == 100
LostFine == 500

\* call when no return_book is in progress; last before any call
NoCall == [member |-> 0]
NoLast == [op |-> "none", member |-> 0, isbn |-> 0, result |-> "none",
           books0 |-> <<>>, members0 |-> <<>>]

----------------------------------------------------------------------------
(* Data models *)

\* Book.__init__
Book(copies) == [copies |-> copies, waitlist |-> <<>>, total_copies |-> copies]

\* Member.__init__
Member(day) ==
    [membership_expiry |-> day + MembershipDays,
     borrowed_books |-> <<>>,
     history |-> <<>>,
     fines |-> 0,
     challenge_progress |-> 0,
     privacy_consent |-> TRUE]

\* member_id in book.waitlist
InWaitlist(member_id, waitlist) == \E i \in 1..Len(waitlist) : waitlist[i] = member_id

\* the number of times member_id occurs in a waitlist
Occurrences(member_id, waitlist) ==
    Cardinality({i \in 1..Len(waitlist) : waitlist[i] = member_id})

\* dict.pop(isbn) / del: the mapping without the key
Without(f, k) == [x \in (DOMAIN f) \ {k} |-> f[x]]

\* dict[k] = v
With(f, k, v) == [x \in (DOMAIN f) \cup {k} |-> IF x = k THEN v ELSE f[x]]

----------------------------------------------------------------------------
(* issue_book *)

\* add_to_waitlist without its membership test
add_to_waitlist_always(bks, member_id, isbn) ==
    [bks EXCEPT ![isbn].waitlist = Append(@, member_id)]

\* add_to_waitlist
add_to_waitlist(bks, member_id, isbn) ==
    IF ~InWaitlist(member_id, bks[isbn].waitlist)
    THEN [bks EXCEPT ![isbn].waitlist = Append(@, member_id)]
    ELSE bks

\* any(due < today for due in member.borrowed_books.values())
HasOverdue(member, day) ==
    \E i \in DOMAIN member.borrowed_books : member.borrowed_books[i] < day

\* today > member.membership_expiry
Expired(member, day) == day > member.membership_expiry

\* the limit test with > for >=
AtLimitOffByOne(member) == Cardinality(DOMAIN member.borrowed_books) > BorrowLimit

\* len(member.borrowed_books) >= 5
AtLimit(member) == Cardinality(DOMAIN member.borrowed_books) >= BorrowLimit

\* the queue test against the tail of the waitlist for its head
QueuedBehindTail(member_id, book) ==
    InWaitlist(member_id, book.waitlist) /\ book.waitlist[Len(book.waitlist)] # member_id

\* member_id in book.waitlist and book.waitlist[0] != member_id
QueuedBehind(member_id, book) ==
    InWaitlist(member_id, book.waitlist) /\ Head(book.waitlist) # member_id

\* the early returns without the privacy-consent test of lines 69-71
RejectionWithoutConsent(status, mbs, day, member_id) ==
    IF status # "online" THEN "offline"
    ELSE IF Expired(mbs[member_id], day) THEN "expired"
    ELSE IF HasOverdue(mbs[member_id], day) THEN "overdue"
    ELSE IF AtLimit(mbs[member_id]) THEN "limit"
    ELSE "none"

\* the early returns of lines 62-83, in the order the code takes them
Rejection(status, mbs, day, member_id) ==
    IF status # "online" THEN "offline"
    ELSE IF ~mbs[member_id].privacy_consent THEN "no_consent"
    ELSE IF Expired(mbs[member_id], day) THEN "expired"
    ELSE IF HasOverdue(mbs[member_id], day) THEN "overdue"
    ELSE IF AtLimit(mbs[member_id]) THEN "limit"
    ELSE "none"

\* lines 95-96 without line 94: the copy is not taken off the shelf
LendWithoutDecrement(bks, mbs, day, member_id, isbn) ==
    [books |-> bks,
     members |-> [mbs EXCEPT ![member_id].borrowed_books = With(@, isbn, day + LoanDays)],
     result |-> "issued"]

\* lines 94-96 followed by a removal of the member from the book's waitlist
LendAndDequeue(bks, mbs, day, member_id, isbn) ==
    [books |-> [bks EXCEPT ![isbn].copies = @ - 1,
                           ![isbn].waitlist = SelectSeq(@, LAMBDA m : m # member_id)],
     members |-> [mbs EXCEPT ![member_id].borrowed_books = With(@, isbn, day + LoanDays)],
     result |-> "issued"]

\* lines 94-96
Lend(bks, mbs, day, member_id, isbn) ==
    [books |-> [bks EXCEPT ![isbn].copies = @ - 1],
     members |-> [mbs EXCEPT ![member_id].borrowed_books = With(@, isbn, day + LoanDays)],
     result |-> "issued"]

\* issue_book that queues a rejected member when no copy is left
issue_book_queues_rejected(bks, mbs, status, day, member_id, isbn) ==
    LET rej == Rejection(status, mbs, day, member_id) IN
    IF rej # "none"
    THEN [books |-> IF bks[isbn].copies = 0
                    THEN add_to_waitlist(bks, member_id, isbn) ELSE bks,
          members |-> mbs, result |-> rej]
    ELSE IF bks[isbn].copies = 0
    THEN [books |-> add_to_waitlist(bks, member_id, isbn), members |-> mbs,
          result |-> "waitlisted"]
    ELSE IF QueuedBehind(member_id, bks[isbn])
    THEN [books |-> bks, members |-> mbs, result |-> "queue"]
    ELSE Lend(bks, mbs, day, member_id, isbn)

\* issue_book with add_to_waitlist on every early return: a rejected member is queued
\* (again) whatever the shelf holds
issue_book_requeues_rejected(bks, mbs, status, day, member_id, isbn) ==
    LET rej == Rejection(status, mbs, day, member_id) IN
    IF rej # "none"
    THEN [books |-> add_to_waitlist(bks, member_id, isbn), members |-> mbs, result |-> rej]
    ELSE IF bks[isbn].copies = 0
    THEN [books |-> add_to_waitlist(bks, member_id, isbn), members |-> mbs,
          result |-> "waitlisted"]
    ELSE IF QueuedBehind(member_id, bks[isbn])
    THEN [books |-> bks, members |-> mbs, result |-> "queue"]
    ELSE Lend(bks, mbs, day, member_id, isbn)

\* issue_book(member_id, isbn, _): the books and members it leaves, and the branch taken
issue_book(bks, mbs, status, day, member_id, isbn) ==
    LET rej == Rejection(status, mbs, day, member_id) IN
    IF rej # "none" THEN [books |-> bks, members |-> mbs, result |-> rej]
    ELSE IF bks[isbn].copies = 0
    THEN [books |-> add_to_waitlist(bks, member_id, isbn), members |-> mbs,
          result |-> "waitlisted"]
    ELSE IF QueuedBehind(member_id, bks[isbn])
    THEN [books |-> bks, members |-> mbs, result |-> "queue"]
    ELSE Lend(bks, mbs, day, member_id, isbn)

----------------------------------------------------------------------------
(* return_book *)

\* calculate_fine
calculate_fine(return_date, due_date) ==
    LET delta == return_date - due_date IN
    IF delta * FinePerDay > 0 THEN delta * FinePerDay ELSE 0

\* lines 112-113 without the test of line 111
LateFineUnguarded(return_date, due_date) == (return_date - due_date) * FinePerDay

\* lines 111-113
LateFine(return_date, due_date) ==
    IF return_date > due_date THEN (return_date - due_date) * FinePerDay ELSE 0

\* lines 115-120
ConditionFine(condition) ==
    IF condition = "damaged" THEN DamagedFine
    ELSE IF condition = "lost" THEN LostFine
    ELSE 0

\* line 122 outside its else branch: every returned copy goes back on the shelf
RestoredAlways(condition) == 1

\* line 122: the copy goes back on the shelf unless damaged or lost
Restored(condition) ==
    IF condition = "damaged" \/ condition = "lost" THEN 0 ELSE 1

\* lines 105-119 on the Member
Returned(member, isbn, return_date, due_date, condition) ==
    [member EXCEPT
        !.borrowed_books = Without(@, isbn),
        !.history = Append(@, isbn),
        !.challenge_progress = @ + 1,
        !.fines = @ + LateFine(return_date, due_date) + ConditionFine(condition)]

\* return_book with line 122 outside the test of line 104: a good "return" of a
\* book the member does not hold puts a copy on the shelf
return_book_restores_unheld(bks, mbs, member_id, isbn, return_date, condition) ==
    IF isbn \in DOMAIN mbs[member_id].borrowed_books
    THEN LET due_date == mbs[member_id].borrowed_books[isbn] IN
         [books |-> [bks EXCEPT ![isbn].copies = @ + Restored(condition)],
          members |-> [mbs EXCEPT
                ![member_id] = Returned(@, isbn, return_date, due_date, condition)],
          found |-> TRUE]
    ELSE [books |-> [bks EXCEPT ![isbn].copies = @ + Restored(condition)],
          members |-> mbs, found |-> FALSE]

\* return_book, lines 100-122: the books and members it leaves, and whether
\* borrowed_books.pop gave a due date (handle_waitlist runs only then)
return_book(bks, mbs, member_id, isbn, return_date, condition) ==
    IF isbn \in DOMAIN mbs[member_id].borrowed_books
    THEN LET due_date == mbs[member_id].borrowed_books[isbn] IN
         [books |-> [bks EXCEPT ![isbn].copies = @ + Restored(condition)],
          members |-> [mbs EXCEPT
                ![member_id] = Returned(@, isbn, return_date, due_date, condition)],
          found |-> TRUE]
    ELSE [books |-> bks, members |-> mbs, found |-> FALSE]

\* the loop condition with > 1 for > 0
PromotingOffByOne(book) == book.waitlist # <<>> /\ book.copies > 1

\* the condition of handle_waitlist's while loop
Promoting(book) == book.waitlist # <<>> /\ book.copies > 0

\* the number of returns made so far: every one added 1 to a challenge_progress
RECURSIVE SumProgress(_, _)
SumProgress(mbs, ids) ==
    IF ids = {} THEN 0
    ELSE LET m == CHOOSE x \in ids : TRUE IN
         mbs[m].challenge_progress + SumProgress(mbs, ids \ {m})

TotalReturns(mbs) == SumProgress(mbs, DOMAIN mbs)

----------------------------------------------------------------------------
(* Initial state: LibrarySystem.__init__ *)

Init ==
    /\ books = <<>>
    /\ members = <<>>
    /\ system_status = "online"
    /\ today = 0
    /\ pc = "idle"
    /\ call = NoCall
    /\ last = NoLast
    /\ written_off = {}

(* Operations *)

\* add_book(isbn, _, _, _, copies, _)
AddBook(isbn, copies) ==
    /\ pc = "idle"
    /\ IF isbn \notin DOMAIN books
       THEN books' = With(books, isbn, Book(copies))
       ELSE /\ books[isbn].total_copies + copies <= MaxCopies
            /\ books' = [books EXCEPT ![isbn].copies = @ + copies,
                                      ![isbn].total_copies = @ + copies]
    /\ last' = [NoLast EXCEPT !.op = "add_book", !.isbn = isbn]
    /\ UNCHANGED <<members, system_status, today, pc, call, written_off>>

\* register_member(member_id, _, _, _); member ids are unique, a caller registers
\* an id once
RegisterMember(member_id) ==
    /\ pc = "idle"
    /\ member_id \notin DOMAIN members
    /\ members' = With(members, member_id, Member(today))
    /\ last' = [NoLast EXCEPT !.op = "register", !.member = member_id]
    /\ UNCHANGED <<books, system_status, today, pc, call, written_off>>

\* lib.system_status = ... ("simulate downtime")
SetSystemStatus(status) ==
    /\ pc = "idle"
    /\ system_status # status
    /\ system_status' = status
    /\ last' = NoLast
    /\ UNCHANGED <<books, members, today, pc, call, written_off>>

\* member.privacy_consent = ... (GDPR opt-in / opt-out)
SetPrivacyConsent(member_id, consent) ==
    /\ pc = "idle"
    /\ member_id \in DOMAIN members
    /\ members[member_id].privacy_consent # consent
    /\ members' = [members EXCEPT ![member_id].privacy_consent = consent]
    /\ last' = NoLast
    /\ UNCHANGED <<books, system_status, today, pc, call, written_off>>

\* the calendar moves on between two calls
AdvanceClock(day) ==
    /\ pc = "idle"
    /\ day > today
    /\ today' = day
    /\ last' = NoLast
    /\ UNCHANGED <<books, members, system_status, pc, call, written_off>>

\* a caller's issue_book(member_id, isbn, branch_id)
IssueBook(member_id, isbn) ==
    /\ pc = "idle"
    /\ member_id \in DOMAIN members
    /\ isbn \in DOMAIN books
    /\ LET r == issue_book(books, members, system_status, today, member_id, isbn) IN
        /\ books' = r.books
        /\ members' = r.members
        /\ last' = [op |-> "issue", member |-> member_id, isbn |-> isbn,
                    result |-> r.result, books0 |-> books, members0 |-> members]
    /\ UNCHANGED <<system_status, today, pc, call, written_off>>

\* return_book(member_id, isbn, return_date, condition), lines 100-122, for a
\* book the member holds: the loop of handle_waitlist follows
ReturnBook(member_id, isbn, return_date, condition) ==
    /\ pc = "idle"
    /\ member_id \in DOMAIN members
    /\ isbn \in DOMAIN books
    /\ isbn \in DOMAIN members[member_id].borrowed_books
    /\ TotalReturns(members) < MaxReturns
    /\ LET due_date == members[member_id].borrowed_books[isbn] IN
        /\ members[member_id].fines + LateFine(return_date, due_date)
                + ConditionFine(condition) <= MaxFines
        /\ members' = return_book(books, members, member_id, isbn, return_date, condition).members
        /\ books' = return_book(books, members, member_id, isbn, return_date, condition).books
        /\ call' = [member |-> member_id, isbn |-> isbn,
                    return_date |-> return_date, condition |-> condition,
                    due_date |-> due_date,
                    books0 |-> books, members0 |-> members,
                    before |-> last,
                    attempts |-> 0]
    /\ pc' = "waitlist"
    /\ last' = [NoLast EXCEPT !.op = "return", !.member = member_id, !.isbn = isbn,
                              !.result = "returned"]
    /\ written_off' = IF condition \in {"damaged", "lost"}
                      THEN written_off \cup {isbn} ELSE written_off
    /\ UNCHANGED <<system_status, today>>

\* return_book for a book the member does not hold: pop gives None, nothing follows
ReturnNotFound(member_id, isbn, condition) ==
    /\ pc = "idle"
    /\ member_id \in DOMAIN members
    /\ isbn \in DOMAIN books
    /\ isbn \notin DOMAIN members[member_id].borrowed_books
    /\ members' = return_book(books, members, member_id, isbn, today, condition).members
    /\ books' = return_book(books, members, member_id, isbn, today, condition).books
    /\ last' = [op |-> "return", member |-> member_id, isbn |-> isbn,
                result |-> "not_found", books0 |-> books, members0 |-> members]
    /\ UNCHANGED <<system_status, today, pc, call, written_off>>

\* pop() for pop(0): the member queued last is taken
waitlist_pop_last(waitlist) ==
    [member |-> waitlist[Len(waitlist)],
     rest |-> SubSeq(waitlist, 1, Len(waitlist) - 1)]

\* book.waitlist.pop(0): the member taken and the waitlist left
waitlist_pop(waitlist) ==
    [member |-> Head(waitlist), rest |-> Tail(waitlist)]

\* one iteration of handle_waitlist's loop: pop the head, issue_book for it
HandleWaitlistStep ==
    /\ pc = "waitlist"
    /\ Promoting(books[call.isbn])
    /\ LET isbn == call.isbn
           next_member == waitlist_pop(books[isbn].waitlist).member
           popped == [books EXCEPT ![isbn].waitlist = waitlist_pop(@).rest]
           r == issue_book(popped, members, system_status, today, next_member, isbn)
       IN
        /\ books' = r.books
        /\ members' = r.members
        /\ last' = [op |-> "auto_issue", member |-> next_member, isbn |-> isbn,
                    result |-> r.result, books0 |-> books, members0 |-> members]
        /\ call' = [call EXCEPT !.attempts = @ + 1]
    /\ UNCHANGED <<system_status, today, pc, written_off>>

\* the loop's condition is false: return_book prints and returns
HandleWaitlistExit ==
    /\ pc = "waitlist"
    /\ ~Promoting(books[call.isbn])
    /\ pc' = "idle"
    /\ call' = NoCall
    /\ UNCHANGED <<books, members, system_status, today, last, written_off>>

\* the dates a caller passes as return_date: the day itself, or five days past the due date
ReturnDates(member_id, isbn) ==
    IF member_id \in DOMAIN members /\ isbn \in DOMAIN members[member_id].borrowed_books
    THEN {today, members[member_id].borrowed_books[isbn] + 5}
    ELSE {today}

(* The lending desk: one system, its clock, and callers of the four operations *)

Next ==
    \/ \E isbn \in Isbns, copies \in 0..MaxCopies : AddBook(isbn, copies)
    \/ \E member_id \in MemberIds : RegisterMember(member_id)
    \/ \E day \in Days : AdvanceClock(day)
    \/ \E member_id \in MemberIds, isbn \in Isbns : IssueBook(member_id, isbn)
    \/ \E member_id \in MemberIds, isbn \in Isbns, condition \in Conditions :
            \E return_date \in ReturnDates(member_id, isbn) :
                ReturnBook(member_id, isbn, return_date, condition)
    \/ \E member_id \in MemberIds, isbn \in Isbns, condition \in Conditions :
            ReturnNotFound(member_id, isbn, condition)
    \/ HandleWaitlistStep
    \/ HandleWaitlistExit

Spec == Init /\ [][Next]_vars

(* The same desk with downtime and consent withdrawal; books come back in good
   condition on the day of the call *)

NextGate ==
    \/ \E isbn \in Isbns, copies \in 0..MaxCopies : AddBook(isbn, copies)
    \/ \E member_id \in MemberIds : RegisterMember(member_id)
    \/ \E status \in {"online", "offline"} : SetSystemStatus(status)
    \/ \E member_id \in MemberIds, consent \in BOOLEAN : SetPrivacyConsent(member_id, consent)
    \/ \E day \in Days : AdvanceClock(day)
    \/ \E member_id \in MemberIds, isbn \in Isbns : IssueBook(member_id, isbn)
    \/ \E member_id \in MemberIds, isbn \in Isbns : ReturnBook(member_id, isbn, today, "good")
    \/ \E member_id \in MemberIds, isbn \in Isbns : ReturnNotFound(member_id, isbn, "good")
    \/ HandleWaitlistStep
    \/ HandleWaitlistExit

SpecGate == Init /\ [][NextGate]_vars

(* A shelf of one title more than the borrowing limit, one copy each, and two
   registered members (the set-up of the test run, lines 212-220): member 1
   borrows along the shelf, member 2 competes for the last title, which is
   the one that is brought back *)

ShelfIsbns == 1..(BorrowLimit + 1)

ShelfPairs == {p \in MemberIds \X ShelfIsbns : p[1] = 1 \/ p[2] = BorrowLimit + 1}

InitShelf ==
    /\ books = [isbn \in ShelfIsbns |-> Book(1)]
    /\ members = [member_id \in MemberIds |-> Member(0)]
    /\ system_status = "online"
    /\ today = 0
    /\ pc = "idle"
    /\ call = NoCall
    /\ last = NoLast
    /\ written_off = {}

NextShelf ==
    \/ \E p \in ShelfPairs : IssueBook(p[1], p[2])
    \/ \E member_id \in MemberIds : ReturnBook(member_id, BorrowLimit + 1, today, "good")
    \/ \E member_id \in MemberIds : ReturnNotFound(member_id, BorrowLimit + 1, "good")
    \/ HandleWaitlistStep
    \/ HandleWaitlistExit

SpecShelf == InitShelf /\ [][NextShelf]_vars

(* Both set-ups, each run under its own callers: every rejection of issue_book
   (offline, no consent, expired, overdue, limit) is reachable *)

OnShelf == DOMAIN books = ShelfIsbns

NextPolicy ==
    \/ OnShelf /\ NextShelf
    \/ ~OnShelf /\ NextGate

SpecPolicy == (Init \/ InitShelf) /\ [][NextPolicy]_vars

----------------------------------------------------------------------------
(* Properties *)

\* the eligibility checks of Issue, steps 1-5, on a member of mbs
Eligible(mbs, member_id) ==
    /\ system_status = "online"
    /\ mbs[member_id].privacy_consent
    /\ today <= mbs[member_id].membership_expiry
    /\ \A isbn \in DOMAIN mbs[member_id].borrowed_books :
            mbs[member_id].borrowed_books[isbn] >= today
    /\ Cardinality(DOMAIN mbs[member_id].borrowed_books) < 5

\* the last call was issue_book or an auto-issue of the promotion
LastIssued == last.op \in {"issue", "auto_issue"}

\* return_book has run to its end (the loop of handle_waitlist has nothing left to do)
ReturnCompletes == pc = "waitlist" /\ ~(books[call.isbn].waitlist # <<>> /\ books[call.isbn].copies > 0)

\* the call before the return in progress issued the returned book to the returning member
IssuedJustBefore ==
    /\ pc = "waitlist"
    /\ call.before.op = "issue"
    /\ call.before.result = "issued"
    /\ call.before.member = call.member
    /\ call.before.isbn = call.isbn

\* C1: every book has 0 <= availableCopies <= totalCopies in every reachable state,
\* the states inside the waitlist promotion included
C1_CopiesWithinTotal ==
    \A isbn \in DOMAIN books :
        /\ 0 <= books[isbn].copies
        /\ books[isbn].copies <= books[isbn].total_copies

\* C1 witness: inside a promotion, an auto-issue has taken the returned copy
C1_Witness ==
    /\ pc = "waitlist"
    /\ call.attempts >= 1
    /\ last.op = "auto_issue" /\ last.result = "issued"
    /\ books[call.isbn].copies = 0
    /\ books[call.isbn].total_copies > 0

\* C2: no member ever has more than 5 entries in borrowedBooks, by a direct issue
\* or by an auto-issue of the promotion
C2_BorrowLimit ==
    \A member_id \in DOMAIN members :
        Cardinality(DOMAIN members[member_id].borrowed_books) <= 5

\* C2 witness: the promotion popped a member who holds 5 books and gave it nothing
C2_Witness ==
    /\ last.op = "auto_issue"
    /\ last.result = "limit"
    /\ Cardinality(DOMAIN members[last.member].borrowed_books) = 5
    /\ last.isbn \notin DOMAIN members[last.member].borrowed_books

\* C3: an issue (direct or by promotion) for a member who holds the isbn never
\* succeeds: it takes no copy and leaves the recorded due date
C3_NoIssueOfHeldBook ==
    (LastIssued /\ last.isbn \in DOMAIN last.members0[last.member].borrowed_books)
        => /\ last.result # "issued"
           /\ books[last.isbn].copies = last.books0[last.isbn].copies
           /\ last.isbn \in DOMAIN members[last.member].borrowed_books
           /\ members[last.member].borrowed_books[last.isbn]
                = last.members0[last.member].borrowed_books[last.isbn]

\* C4 as stated: issueBook for a book with no available copy takes no copy and leaves
\* the caller in the waitlist exactly once, whatever the state of the member
C4_WaitlistedWhateverMember ==
    (last.op = "issue" /\ last.books0[last.isbn].copies = 0)
        => /\ books[last.isbn].copies = 0
           /\ Occurrences(last.member, books[last.isbn].waitlist) = 1

\* C4 amended: issueBook for a book with no available copy takes no copy; a caller
\* who passes the eligibility checks is in the waitlist exactly once after the call,
\* a caller who fails one leaves the waitlist as it was
C4_EligibleWaitlistedOnce ==
    (last.op = "issue" /\ last.books0[last.isbn].copies = 0)
        => /\ books[last.isbn].copies = 0
           /\ IF Eligible(last.members0, last.member)
              THEN Occurrences(last.member, books[last.isbn].waitlist) = 1
              ELSE books[last.isbn].waitlist = last.books0[last.isbn].waitlist

\* C4 witness: an eligible member who was already waiting asks again
C4_Witness ==
    /\ last.op = "issue"
    /\ last.books0[last.isbn].copies = 0
    /\ Eligible(last.members0, last.member)
    /\ InWaitlist(last.member, last.books0[last.isbn].waitlist)
    /\ Occurrences(last.member, books[last.isbn].waitlist) = 1

C6_FineAdded ==
    pc = "waitlist" =>
        LET days == call.return_date - call.due_date
            late == IF days > 0 THEN days ELSE 0
            flat == CASE call.condition = "good" -> 0
                      [] call.condition = "damaged" -> 100
                      [] call.condition = "lost" -> 500
            added == members[call.member].fines - call.members0[call.member].fines
        IN
        /\ added = late * 5 + flat
        /\ added = calculate_fine(call.return_date, call.due_date) + flat

\* C6 witness: a good return 5 days late has added 25
C6_Witness ==
    /\ pc = "waitlist"
    /\ call.condition = "good"
    /\ call.return_date = call.due_date + 5
    /\ members[call.member].fines = call.members0[call.member].fines + 25

\* C7: a book issued and returned at once (same day, good) has the availableCopies
\* and totalCopies it had before the issue when the return ends, and the member has
\* one more history entry and one more challengeProgress
C7_RoundTrip ==
    (ReturnCompletes /\ IssuedJustBefore /\ call.condition = "good"
        /\ call.return_date = today /\ call.due_date = today + 14)
        => LET isbn == call.isbn
               member_id == call.member
               book0 == call.before.books0[isbn]
               member0 == call.before.members0[member_id]
           IN
           /\ books[isbn].copies = book0.copies
           /\ books[isbn].total_copies = book0.total_copies
           /\ Len(members[member_id].history) = Len(member0.history) + 1
           /\ members[member_id].challenge_progress = member0.challenge_progress + 1

\* C8: a book with no available copy and an eligible member at the head of its
\* waitlist is returned in good condition: line 122 puts the copy on the shelf
\* (availableCopies 1 inside the call), and at the step that ends return_book the head
\* holds the book, due today + 14, is out of the waitlist, and availableCopies is 0
HandOverStep ==
    /\ \A member_id \in DOMAIN members, isbn \in DOMAIN books :
        (/\ pc = "idle" /\ pc' = "waitlist"
         /\ call'.member = member_id /\ call'.isbn = isbn /\ call'.condition = "good"
         /\ books[isbn].copies = 0)
            => books'[isbn].copies = 1
    /\ (/\ pc = "waitlist" /\ pc' = "idle"
        /\ call.condition = "good"
        /\ call.books0[call.isbn].copies = 0
        /\ call.books0[call.isbn].waitlist # <<>>
        /\ Eligible(call.members0, Head(call.books0[call.isbn].waitlist)))
            => LET isbn == call.isbn
                   head == Head(call.books0[isbn].waitlist)
               IN
               /\ isbn \in DOMAIN members'[head].borrowed_books
               /\ members'[head].borrowed_books[isbn] = today + 14
               /\ ~InWaitlist(head, books'[isbn].waitlist)
               /\ books'[isbn].copies = 0

C8_HandOver == [][HandOverStep]_vars

\* C8 witness: the return has ended and another member than the returning one holds
\* the copy
C8_Witness ==
    /\ ReturnCompletes
    /\ call.condition = "good"
    /\ call.books0[call.isbn].copies = 0
    /\ call.books0[call.isbn].waitlist # <<>>
    /\ Head(call.books0[call.isbn].waitlist) # call.member
    /\ Eligible(call.members0, Head(call.books0[call.isbn].waitlist))
    /\ call.isbn \in DOMAIN members[Head(call.books0[call.isbn].waitlist)].borrowed_books

\* C9: a direct issueBook by a member who fails an eligibility check (system offline,
\* no consent, membership expired, an overdue loan, 5 books held) changes no book and
\* no member
C9_RejectedIssueChangesNothing ==
    (last.op = "issue" /\ ~Eligible(last.members0, last.member))
        => /\ books = last.books0
           /\ members = last.members0
           /\ last.result \in {"offline", "no_consent", "expired", "overdue", "limit"}

\* C9 witness: a member whose membership has expired asked for a book without copies
C9_Witness ==
    /\ last.op = "issue"
    /\ system_status = "online"
    /\ last.members0[last.member].privacy_consent
    /\ today > last.members0[last.member].membership_expiry
    /\ last.books0[last.isbn].copies = 0
    /\ last.result = "expired"

\* C10: while the system is offline neither issueBook nor returnBook changes a book
\* or a member
C10_OfflineDisablesIssueAndReturn ==
    system_status = "offline" =>
        /\ last.op = "issue" => (books = last.books0 /\ members = last.members0)
        /\ pc = "waitlist" => (books = call.books0 /\ members = call.members0)

\* C11: no call lowers a member's fines, and fines are never negative, whatever the
\* return date (dates before the due date included)
FinesNeverDecrease ==
    /\ \A member_id \in DOMAIN members :
        /\ member_id \in DOMAIN members'
        /\ members'[member_id].fines >= members[member_id].fines
    /\ \A member_id \in DOMAIN members' : members'[member_id].fines >= 0

C11_FinesMonotonic == [][FinesNeverDecrease]_vars

\* C11 witness: a book came back 14 days before its due date and nothing was added
C11_Witness ==
    /\ pc = "waitlist"
    /\ call.return_date < call.due_date
    /\ call.condition = "good"
    /\ members[call.member].fines = call.members0[call.member].fines

\* C12: a returnBook for an isbn the member does not hold changes no book and no
\* member (no fine, no history entry, no challengeProgress, no copy restored, whatever
\* the condition) and starts no waitlist promotion
C12_ReturnNotFoundIsNoOp ==
    (last.op = "return" /\ last.result = "not_found")
        => /\ books = last.books0
           /\ members = last.members0
           /\ pc = "idle"
           /\ call = NoCall

\* C12 witness: the unheld book has a waiting member and a copy on the shelf, which
\* a promotion would have handed over
C12_Witness ==
    /\ last.op = "return" /\ last.result = "not_found"
    /\ last.isbn \notin DOMAIN last.members0[last.member].borrowed_books
    /\ books[last.isbn].waitlist # <<>>
    /\ books[last.isbn].copies > 0

\* no member id occurs twice in the sequence
NoDuplicates(waitlist) ==
    \A i, j \in 1..Len(waitlist) : waitlist[i] = waitlist[j] => i = j

\* one step changes a waitlist only by appending an absent member at the tail or by
\* taking the head away
FifoStep(waitlist, waitlist1) ==
    \/ waitlist1 = waitlist
    \/ \E member_id \in MemberIds :
        /\ ~InWaitlist(member_id, waitlist)
        /\ waitlist1 = Append(waitlist, member_id)
    \/ waitlist # <<>> /\ waitlist1 = Tail(waitlist)

WaitlistStep ==
    /\ \A isbn \in DOMAIN books :
        /\ isbn \in DOMAIN books'
        /\ FifoStep(books[isbn].waitlist, books'[isbn].waitlist)
    /\ \A isbn \in DOMAIN books' : NoDuplicates(books'[isbn].waitlist)

\* C13: no waitlist ever holds a member twice, and every step leaves each waitlist
\* alone, appends one absent member at its tail, or removes its head, so two queued
\* members never swap places
C13_WaitlistFifoNoDuplicates == [][WaitlistStep]_vars

\* C13 witness: a promotion has taken the head of a two-member waitlist and the member
\* queued second is now first
C13_Witness ==
    /\ pc = "waitlist"
    /\ call.attempts = 1
    /\ Len(call.books0[call.isbn].waitlist) = 2
    /\ books[call.isbn].waitlist = <<call.books0[call.isbn].waitlist[2]>>

\* C14: with a copy on the shelf, a direct issueBook by a member queued behind the head
\* of the waitlist is rejected and changes nothing, and an eligible member who is not
\* in the waitlist is issued the copy whoever is queued
C14_QueuePriority ==
    (last.op = "issue" /\ last.books0[last.isbn].copies > 0) =>
        /\ (\E i \in 2..Len(last.books0[last.isbn].waitlist) :
                    last.books0[last.isbn].waitlist[i] = last.member)
            => /\ books = last.books0
               /\ members = last.members0
               /\ last.result # "issued"
        /\ (~InWaitlist(last.member, last.books0[last.isbn].waitlist)
                /\ Eligible(last.members0, last.member))
            => /\ last.result = "issued"
               /\ last.isbn \in DOMAIN members[last.member].borrowed_books
               /\ books[last.isbn].copies = last.books0[last.isbn].copies - 1
               /\ books[last.isbn].waitlist = last.books0[last.isbn].waitlist

\* C14 witness: an eligible member second in the waitlist asked for a book with a copy
\* on the shelf and was turned away by the queue test
C14_Witness ==
    /\ last.op = "issue"
    /\ last.books0[last.isbn].copies > 0
    /\ Len(last.books0[last.isbn].waitlist) = 2
    /\ last.books0[last.isbn].waitlist[2] = last.member
    /\ Eligible(last.members0, last.member)
    /\ last.result = "queue"

\* a member outside a non-empty waitlist was issued the copy ahead of the queue
C14_Overtaken ==
    /\ last.op = "issue"
    /\ last.books0[last.isbn].waitlist # <<>>
    /\ ~InWaitlist(last.member, last.books0[last.isbn].waitlist)
    /\ last.result = "issued"

\* the waitlist of the book being returned, as it was when return_book was called
StartWaitlist == call.books0[call.isbn].waitlist

PromotionStep ==
    /\ (pc = "waitlist" /\ pc' = "waitlist")
        => /\ call'.attempts = call.attempts + 1
           /\ call'.attempts <= Len(StartWaitlist)
           /\ last'.op = "auto_issue"
           /\ last'.member = StartWaitlist[call'.attempts]
           /\ books'[call.isbn].waitlist =
                SubSeq(StartWaitlist, call'.attempts + 1, Len(StartWaitlist))
           /\ \A member_id \in DOMAIN members :
                (members'[member_id] # members[member_id]) => member_id = last'.member
    /\ (pc = "waitlist" /\ pc' = "idle")
        => \/ books'[call.isbn].waitlist = <<>>
           \/ books'[call.isbn].copies = 0

\* C15: the promotion of a returnBook pops the waitlist in order (its k-th attempt is
\* for the member queued k-th at the start, the earlier ones are gone from the waitlist
\* and only the popped member can be issued the copy), and when the call ends the
\* waitlist is empty or availableCopies is 0
C15_PromotionDrainsInOrder == [][PromotionStep]_vars

\* C15 witness: the member queued second was issued a copy at the second attempt,
\* after the member queued first had been popped
C15_Witness ==
    /\ pc = "waitlist"
    /\ call.attempts = 2
    /\ last.op = "auto_issue"
    /\ last.result = "issued"
    /\ last.member = StartWaitlist[2]
    /\ last.member # StartWaitlist[1]

\* C16: a member popped by the promotion who fails an eligibility check (offline, no
\* consent, expired, overdue, 5 books held) gets no copy and is not queued again, the
\* copy stays on the shelf for the next member, and until the return ends the member
\* holds what it held before and is in the waitlist no more
C16_AutoIssueKeepsEligibility ==
    /\ (last.op = "auto_issue" /\ ~Eligible(last.members0, last.member))
        => /\ last.result \in {"offline", "no_consent", "expired", "overdue", "limit"}
           /\ members = last.members0
           /\ books[last.isbn].copies = last.books0[last.isbn].copies
           /\ books[last.isbn].waitlist = Tail(last.books0[last.isbn].waitlist)
           /\ ~InWaitlist(last.member, books[last.isbn].waitlist)
    /\ pc = "waitlist"
        => \A k \in 1..call.attempts :
            (/\ StartWaitlist[k] # call.member
             /\ ~Eligible(call.members0, StartWaitlist[k]))
                => /\ members[StartWaitlist[k]] = call.members0[StartWaitlist[k]]
                   /\ ~InWaitlist(StartWaitlist[k], books[call.isbn].waitlist)

\* C16 witness: the first member popped was without consent and got nothing, and the
\* copy went to the member queued behind
C16_Witness ==
    /\ pc = "waitlist"
    /\ call.attempts = 2
    /\ system_status = "online"
    /\ ~call.members0[StartWaitlist[1]].privacy_consent
    /\ call.isbn \notin DOMAIN members[StartWaitlist[1]].borrowed_books
    /\ last.op = "auto_issue"
    /\ last.member = StartWaitlist[2]
    /\ last.result = "issued"

\* a member holding five books was popped by the promotion and got nothing
C16_LimitDropped ==
    /\ last.op = "auto_issue"
    /\ last.result = "limit"
    /\ last.isbn \notin DOMAIN members[last.member].borrowed_books

\* The callers of add_book, register_member, issue_book and return_book on one day,
\* members giving and withdrawing consent. return_book is one synchronous call: once
\* it has started, the loop of handle_waitlist and the return that follows it are not
\* suspended
NextCascade ==
    \/ \E isbn \in Isbns, copies \in 0..MaxCopies : AddBook(isbn, copies)
    \/ \E member_id \in MemberIds : RegisterMember(member_id)
    \/ \E member_id \in MemberIds, consent \in BOOLEAN : SetPrivacyConsent(member_id, consent)
    \/ \E member_id \in MemberIds, isbn \in Isbns : IssueBook(member_id, isbn)
    \/ \E member_id \in MemberIds, isbn \in Isbns, condition \in Conditions :
            ReturnBook(member_id, isbn, today, condition)
    \/ HandleWaitlistStep
    \/ HandleWaitlistExit

SpecCascade ==
    /\ Init
    /\ [][NextCascade]_vars
    /\ WF_vars(HandleWaitlistStep)
    /\ WF_vars(HandleWaitlistExit)

\* each attempt of the promotion has taken one member off the waitlist and none has
\* been queued since the return started
CascadeVariant ==
    pc = "waitlist"
        => /\ call.attempts <= Len(StartWaitlist)
           /\ Len(books[call.isbn].waitlist) = Len(StartWaitlist) - call.attempts

\* C17: every returnBook ends, and its promotion makes at most as many auto-issue
\* attempts as the waitlist was long when it started: each attempt removes one member
\* and none queues anyone again
C17_ReturnTerminates ==
    /\ []CascadeVariant
    /\ (pc = "waitlist") ~> (pc = "idle")

\* C17 witness: a promotion has made as many attempts as its waitlist of two was long
\* and the waitlist is empty
C17_Witness ==
    /\ pc = "waitlist"
    /\ Len(StartWaitlist) = 2
    /\ call.attempts = 2
    /\ books[call.isbn].waitlist = <<>>

\* C18: no member is at once in a book's waitlist and holding that book
C18_WaitlistedOrBorrowed ==
    \A member_id \in DOMAIN members, isbn \in DOMAIN books :
        ~(/\ InWaitlist(member_id, books[isbn].waitlist)
          /\ isbn \in DOMAIN members[member_id].borrowed_books)

LeavesOnlyByPromotion ==
    \A isbn \in DOMAIN books :
        /\ isbn \in DOMAIN books'
        /\ \A member_id \in MemberIds :
            (/\ InWaitlist(member_id, books[isbn].waitlist)
             /\ ~InWaitlist(member_id, books'[isbn].waitlist))
                => /\ pc = "waitlist" /\ pc' = "waitlist"
                   /\ call.isbn = isbn
                   /\ last'.op = "auto_issue"
                   /\ last'.member = member_id

\* C19: a member leaves a book's waitlist only when the promotion of a returnBook of
\* that book pops it: issueBook (a successful direct issue to the head of the waitlist
\* included), addBook and a return of a book not held remove nobody from a waitlist
C19_LeavesWaitlistOnlyByPromotion == [][LeavesOnlyByPromotion]_vars

\* C19 witness: the head of the waitlist was issued a copy directly and is still in
\* the waitlist
C19_Witness ==
    /\ last.op = "issue"
    /\ last.result = "issued"
    /\ last.books0[last.isbn].waitlist # <<>>
    /\ Head(last.books0[last.isbn].waitlist) = last.member
    /\ InWaitlist(last.member, books[last.isbn].waitlist)

\* the members whose borrowed_books holds the isbn
Holders(isbn) == {member_id \in DOMAIN members : isbn \in DOMAIN members[member_id].borrowed_books}

\* the first half of C20 alone
CopiesAndHoldersWithinTotal ==
    \A isbn \in DOMAIN books :
        books[isbn].copies + Cardinality(Holders(isbn)) <= books[isbn].total_copies

\* C20: for every book, availableCopies plus the number of members holding it is at
\* most totalCopies, and equals totalCopies while no copy of the book has come back
\* damaged or lost
C20_CopyAccounting ==
    \A isbn \in DOMAIN books :
        /\ books[isbn].copies + Cardinality(Holders(isbn)) <= books[isbn].total_copies
        /\ isbn \notin written_off
            => books[isbn].copies + Cardinality(Holders(isbn)) = books[isbn].total_copies

====
